---------------------------- MODULE Spec2Model ----------------------------
(***************************************************************************)
(* Model of kedro.extras.datasets.hdf5.H5pyDataSet (load / save / exists   *)
(* through an fsspec filesystem, with the class-wide lock around the h5py  *)
(* in-memory open and copy) and of kedro.extras.datasets.plotly            *)
(* .PlotlyDataSet (figure construction from plotly_args, then the JSON     *)
(* save of the parent class).                                              *)
(***************************************************************************)
EXTENDS Integers, Sequences, FiniteSets, TLC

(***************************************************************************)
(* Bounds of the model.                                                    *)
(***************************************************************************)
NThreads == 2
MaxCalls == 2
MaxEntries == 2
MaxVersions == 1

Threads == 1..NThreads
NoThread == 0

(***************************************************************************)
(* Dataset instances: one configured without a version, one with           *)
(* Version(load=None, save=None).                                          *)
(***************************************************************************)
DataSets == {"plain", "versioned"}
Versioned(d) == d = "versioned"

(***************************************************************************)
(* Hierarchical container handles: top-level name -> content.  A name can  *)
(* be absent; "dangling" is a top-level link whose target cannot be        *)
(* opened, so that items() yields no object for it.                        *)
(***************************************************************************)
Names == 1..MaxEntries
Contents == {"x", "y"}
Dangling == "dangling"
Absent == "absent"
Handles == [Names -> Contents \cup {Dangling, Absent}]
NoHandle == [n \in Names |-> "none"]

(***************************************************************************)
(* Raw bytes of a container: a signature, the entry count of the header    *)
(* and the entries in file order.  ZeroBytes is the zero-length file.      *)
(***************************************************************************)
ZeroBytes == [sig |-> FALSE, count |-> 0, body |-> <<>>]
EmptyContainer == [sig |-> TRUE, count |-> 0, body |-> <<>>]

BodyNames(b) == {b.body[i][1] : i \in 1..Len(b.body)}

WellFormed(b) ==
    /\ b.sig
    /\ b.count = Len(b.body)
    /\ Cardinality(BodyNames(b)) = Len(b.body)

Truncations(b) ==
    {ZeroBytes} \cup {[b EXCEPT !.body = SubSeq(b.body, 1, k)] : k \in 0..(Len(b.body) - 1)}

Decode(b) ==
    [n \in Names |->
        IF n \in BodyNames(b)
        THEN b.body[CHOOSE i \in 1..Len(b.body) : b.body[i][1] = n][2]
        ELSE Absent]

(* Variant of CopyEntry that copies the object but not its content.        *)
CopyEntry_Shallow(c, n, v) ==
    [c EXCEPT !.count = c.count + 1, !.body = Append(c.body, <<n, "x">>)]

CopyEntry(c, n, v) ==
    [c EXCEPT !.count = c.count + 1, !.body = Append(c.body, <<n, v>>)]

RECURSIVE SeqOfSet(_)
SeqOfSet(S) ==
    IF S = {} THEN <<>>
    ELSE LET m == CHOOSE x \in S : \A y \in S : x <= y
         IN <<m>> \o SeqOfSet(S \ {m})

Items(h) == SeqOfSet({n \in Names : h[n] # Absent})

(***************************************************************************)
(* State.  Per calling thread: the position in the running call and the    *)
(* call's local variables.  Shared: the class attribute _lock, the h5py    *)
(* library's working container (the state the lock protects), the files    *)
(* behind the fsspec filesystem and whether its cache may be stale.        *)
(* trace and lastSaved are history variables: the steps the running call   *)
(* has taken, and the handle whose encoding is the newest file of a        *)
(* dataset.                                                                *)
(***************************************************************************)
VARIABLES pc, op, ds, data, path, binary_data, todo, result, ret, err, trace,
          lock, h5lib, store, cacheStale, ncalls, lastSaved,
          plotly_args, frame, fig, plErr, plSteps, jsonFile

locals == <<data, path, binary_data, todo, result, ret, err>>
h5vars == <<pc, op, ds, data, path, binary_data, todo, result, ret, err, trace,
            lock, h5lib, store, cacheStale, ncalls, lastSaved>>
plvars == <<plotly_args, frame, fig, plErr, plSteps, jsonFile>>
vars == <<h5vars, plvars>>

(***************************************************************************)
(* Path resolution of AbstractVersionedDataSet (kedro.io.core): 0 stands   *)
(* for the error raised when a versioned dataset has no version to load.   *)
(***************************************************************************)
GetLoadPath(d) == IF Versioned(d) THEN Len(store[d]) ELSE 1
GetSavePath(d) == IF Versioned(d) THEN Len(store[d]) + 1 ELSE 1
FileExists(d, p) == p \in 1..Len(store[d])
WriteFile(d, p, b) ==
    IF p <= Len(store[d]) THEN [store EXCEPT ![d][p] = b]
    ELSE [store EXCEPT ![d] = Append(@, b)]

(* Saves in flight on d: with the files present they cap the number of     *)
(* versions a versioned dataset gets at MaxVersions.                       *)
Pending(d) == {u \in Threads : pc[u] # "idle" /\ op[u] = "save" /\ ds[u] = d}

(***************************************************************************)
(* A caller enters load(), save(data) or exists().                         *)
(***************************************************************************)
StartLoad(t, d) ==
    /\ pc[t] = "idle"
    /\ ncalls < MaxCalls
    /\ ncalls' = ncalls + 1
    /\ pc' = [pc EXCEPT ![t] = "load_resolve"]
    /\ op' = [op EXCEPT ![t] = "load"]
    /\ ds' = [ds EXCEPT ![t] = d]
    /\ UNCHANGED <<locals, trace, lock, h5lib, store, cacheStale, lastSaved>>
    /\ UNCHANGED plvars

StartSave(t, d, h) ==
    /\ pc[t] = "idle"
    /\ ncalls < MaxCalls
    /\ Versioned(d) => Len(store[d]) + Cardinality(Pending(d)) < MaxVersions
    /\ ncalls' = ncalls + 1
    /\ pc' = [pc EXCEPT ![t] = "save_resolve"]
    /\ op' = [op EXCEPT ![t] = "save"]
    /\ ds' = [ds EXCEPT ![t] = d]
    /\ data' = [data EXCEPT ![t] = h]
    /\ UNCHANGED <<path, binary_data, todo, result, ret, err, trace,
                   lock, h5lib, store, cacheStale, lastSaved>>
    /\ UNCHANGED plvars

StartExists(t, d) ==
    /\ pc[t] = "idle"
    /\ ncalls < MaxCalls
    /\ ncalls' = ncalls + 1
    /\ pc' = [pc EXCEPT ![t] = "exists_resolve"]
    /\ op' = [op EXCEPT ![t] = "exists"]
    /\ ds' = [ds EXCEPT ![t] = d]
    /\ UNCHANGED <<locals, trace, lock, h5lib, store, cacheStale, lastSaved>>
    /\ UNCHANGED plvars

(***************************************************************************)
(* _load                                                                   *)
(***************************************************************************)
LoadResolve(t) ==
    /\ pc[t] = "load_resolve"
    /\ trace' = [trace EXCEPT ![t] = Append(@, "resolve")]
    /\ IF GetLoadPath(ds[t]) = 0
       THEN /\ err' = [err EXCEPT ![t] = "PathResolutionError"]
            /\ pc' = [pc EXCEPT ![t] = "done"]
            /\ path' = path
       ELSE /\ path' = [path EXCEPT ![t] = GetLoadPath(ds[t])]
            /\ pc' = [pc EXCEPT ![t] = "load_read"]
            /\ err' = err
    /\ UNCHANGED <<op, ds, data, binary_data, todo, result, ret,
                   lock, h5lib, store, cacheStale, ncalls, lastSaved>>
    /\ UNCHANGED plvars

LoadRead(t) ==
    /\ pc[t] = "load_read"
    /\ trace' = [trace EXCEPT ![t] = Append(@, "read")]
    /\ IF FileExists(ds[t], path[t])
       THEN /\ binary_data' = [binary_data EXCEPT ![t] = store[ds[t]][path[t]]]
            /\ pc' = [pc EXCEPT ![t] = "load_lock"]
            /\ err' = err
       ELSE /\ err' = [err EXCEPT ![t] = "FileNotFoundError"]
            /\ pc' = [pc EXCEPT ![t] = "done"]
            /\ binary_data' = binary_data
    /\ UNCHANGED <<op, ds, data, path, todo, result, ret,
                   lock, h5lib, store, cacheStale, ncalls, lastSaved>>
    /\ UNCHANGED plvars

(* Variant of AcquireLock that enters without waiting for the lock.        *)
AcquireLock_NoWait(t) ==
    /\ pc[t] \in {"load_lock", "save_lock"}
    /\ lock' = t
    /\ pc' = [pc EXCEPT ![t] = IF pc[t] = "load_lock" THEN "load_fapl" ELSE "save_create"]
    /\ UNCHANGED <<op, ds, locals, trace, h5lib, store, cacheStale, ncalls, lastSaved>>
    /\ UNCHANGED plvars

(***************************************************************************)
(* with H5pyDataSet._lock: entering blocks until the lock is free.         *)
(***************************************************************************)
AcquireLock(t) ==
    /\ pc[t] \in {"load_lock", "save_lock"}
    /\ lock = NoThread
    /\ lock' = t
    /\ pc' = [pc EXCEPT ![t] = IF pc[t] = "load_lock" THEN "load_fapl" ELSE "save_create"]
    /\ UNCHANGED <<op, ds, locals, trace, h5lib, store, cacheStale, ncalls, lastSaved>>
    /\ UNCHANGED plvars

(* Variant of LoadFapl whose lock covers set_file_image only.              *)
LoadFapl_EarlyRelease(t) ==
    /\ pc[t] = "load_fapl"
    /\ trace' = [trace EXCEPT ![t] = Append(@, "decode")]
    /\ h5lib' = binary_data[t]
    /\ lock' = NoThread
    /\ pc' = [pc EXCEPT ![t] = "load_open"]
    /\ UNCHANGED <<op, ds, locals, store, cacheStale, ncalls, lastSaved>>
    /\ UNCHANGED plvars

(***************************************************************************)
(* __h5py_from_binary: the file image is handed to the library, then       *)
(* h5f.open builds the handle from it or raises.                           *)
(***************************************************************************)
LoadFapl(t) ==
    /\ pc[t] = "load_fapl"
    /\ trace' = [trace EXCEPT ![t] = Append(@, "decode")]
    /\ h5lib' = binary_data[t]
    /\ pc' = [pc EXCEPT ![t] = "load_open"]
    /\ UNCHANGED <<op, ds, locals, lock, store, cacheStale, ncalls, lastSaved>>
    /\ UNCHANGED plvars

(* Variant of LoadOpen that hands back whatever entries the buffer holds.  *)
LoadOpen_Partial(t) ==
    /\ pc[t] = "load_open"
    /\ result' = [result EXCEPT ![t] = Decode(h5lib)]
    /\ h5lib' = ZeroBytes
    /\ pc' = [pc EXCEPT ![t] = "load_unlock"]
    /\ UNCHANGED <<op, ds, data, path, binary_data, todo, ret, err, trace,
                   lock, store, cacheStale, ncalls, lastSaved>>
    /\ UNCHANGED plvars

LoadOpen(t) ==
    /\ pc[t] = "load_open"
    /\ IF WellFormed(h5lib)
       THEN /\ result' = [result EXCEPT ![t] = Decode(h5lib)]
            /\ err' = err
       ELSE /\ err' = [err EXCEPT ![t] = "DecodeError"]
            /\ result' = result
    /\ h5lib' = ZeroBytes
    /\ pc' = [pc EXCEPT ![t] = "load_unlock"]
    /\ UNCHANGED <<op, ds, data, path, binary_data, todo, ret, trace,
                   lock, store, cacheStale, ncalls, lastSaved>>
    /\ UNCHANGED plvars

(* Variant of ReleaseLock whose lock scope reaches over the write.         *)
ReleaseLock_Keep(t) ==
    /\ pc[t] \in {"load_unlock", "save_unlock"}
    /\ lock' = IF pc[t] = "save_unlock" /\ err[t] = "none" THEN lock ELSE NoThread
    /\ pc' = [pc EXCEPT ![t] =
                IF pc[t] = "save_unlock" /\ err[t] = "none" THEN "save_write" ELSE "done"]
    /\ UNCHANGED <<op, ds, locals, trace, h5lib, store, cacheStale, ncalls, lastSaved>>
    /\ UNCHANGED plvars

(* Variant of ReleaseLock with acquire/release and no finally: an          *)
(* exception leaves the lock held.                                         *)
ReleaseLock_NoFinally(t) ==
    /\ pc[t] \in {"load_unlock", "save_unlock"}
    /\ lock' = IF err[t] = "none" THEN NoThread ELSE lock
    /\ pc' = [pc EXCEPT ![t] =
                IF pc[t] = "save_unlock" /\ err[t] = "none" THEN "save_write" ELSE "done"]
    /\ UNCHANGED <<op, ds, locals, trace, h5lib, store, cacheStale, ncalls, lastSaved>>
    /\ UNCHANGED plvars

(* Variant of ReleaseLock after which _save goes on despite the error.     *)
ReleaseLock_IgnoreError(t) ==
    /\ pc[t] \in {"load_unlock", "save_unlock"}
    /\ lock' = NoThread
    /\ pc' = [pc EXCEPT ![t] = IF pc[t] = "save_unlock" THEN "save_write" ELSE "done"]
    /\ UNCHANGED <<op, ds, locals, trace, h5lib, store, cacheStale, ncalls, lastSaved>>
    /\ UNCHANGED plvars

(***************************************************************************)
(* Leaving the with block, by return or by exception, releases the lock.   *)
(***************************************************************************)
ReleaseLock(t) ==
    /\ pc[t] \in {"load_unlock", "save_unlock"}
    /\ lock' = NoThread
    /\ pc' = [pc EXCEPT ![t] =
                IF pc[t] = "save_unlock" /\ err[t] = "none" THEN "save_write" ELSE "done"]
    /\ UNCHANGED <<op, ds, locals, trace, h5lib, store, cacheStale, ncalls, lastSaved>>
    /\ UNCHANGED plvars

(***************************************************************************)
(* _save                                                                   *)
(***************************************************************************)
SaveResolve(t) ==
    /\ pc[t] = "save_resolve"
    /\ trace' = [trace EXCEPT ![t] = Append(@, "resolve")]
    /\ path' = [path EXCEPT ![t] = GetSavePath(ds[t])]
    /\ pc' = [pc EXCEPT ![t] = "save_lock"]
    /\ UNCHANGED <<op, ds, data, binary_data, todo, result, ret, err,
                   lock, h5lib, store, cacheStale, ncalls, lastSaved>>
    /\ UNCHANGED plvars

(***************************************************************************)
(* __h5py_to_binary: a fresh memory-backed container, one copy per         *)
(* top-level item, then close and getvalue.                                *)
(***************************************************************************)
SaveCreate(t) ==
    /\ pc[t] = "save_create"
    /\ trace' = [trace EXCEPT ![t] = Append(@, "encode")]
    /\ h5lib' = EmptyContainer
    /\ todo' = [todo EXCEPT ![t] = Items(data[t])]
    /\ pc' = [pc EXCEPT ![t] = "save_copy"]
    /\ UNCHANGED <<op, ds, data, path, binary_data, result, ret, err,
                   lock, store, cacheStale, ncalls, lastSaved>>
    /\ UNCHANGED plvars

SaveCopy(t) ==
    /\ pc[t] = "save_copy"
    /\ todo[t] # <<>>
    /\ IF data[t][Head(todo[t])] = Dangling
       THEN /\ err' = [err EXCEPT ![t] = "EncodeError"]
            /\ h5lib' = ZeroBytes
            /\ todo' = [todo EXCEPT ![t] = <<>>]
            /\ pc' = [pc EXCEPT ![t] = "save_unlock"]
       ELSE /\ h5lib' = CopyEntry(h5lib, Head(todo[t]), data[t][Head(todo[t])])
            /\ todo' = [todo EXCEPT ![t] = Tail(@)]
            /\ UNCHANGED <<err, pc>>
    /\ UNCHANGED <<op, ds, data, path, binary_data, result, ret, trace,
                   lock, store, cacheStale, ncalls, lastSaved>>
    /\ UNCHANGED plvars

SaveClose(t) ==
    /\ pc[t] = "save_copy"
    /\ todo[t] = <<>>
    /\ binary_data' = [binary_data EXCEPT ![t] = h5lib]
    /\ h5lib' = ZeroBytes
    /\ pc' = [pc EXCEPT ![t] = "save_unlock"]
    /\ UNCHANGED <<op, ds, data, path, todo, result, ret, err, trace,
                   lock, store, cacheStale, ncalls, lastSaved>>
    /\ UNCHANGED plvars

(***************************************************************************)
(* with self._fs.open(save_path, mode="wb") as fs_file: fs_file.write(..). *)
(* The filesystem may fail: before anything is written, or part-way.       *)
(***************************************************************************)
SaveWrite(t) ==
    /\ pc[t] = "save_write"
    /\ trace' = [trace EXCEPT ![t] = Append(@, "write")]
    /\ \/ /\ store' = WriteFile(ds[t], path[t], binary_data[t])
          /\ lastSaved' = IF path[t] >= Len(store[ds[t]])
                          THEN [lastSaved EXCEPT ![ds[t]] = data[t]]
                          ELSE lastSaved
          /\ cacheStale' = [cacheStale EXCEPT ![ds[t]] = TRUE]
          /\ pc' = [pc EXCEPT ![t] = "save_invalidate"]
          /\ err' = err
       \/ /\ err' = [err EXCEPT ![t] = "IOError"]
          /\ pc' = [pc EXCEPT ![t] = "done"]
          /\ UNCHANGED <<store, lastSaved, cacheStale>>
       \/ /\ \E b \in Truncations(binary_data[t]) :
                store' = WriteFile(ds[t], path[t], b)
          /\ lastSaved' = IF path[t] >= Len(store[ds[t]])
                          THEN [lastSaved EXCEPT ![ds[t]] = NoHandle]
                          ELSE lastSaved
          /\ cacheStale' = [cacheStale EXCEPT ![ds[t]] = TRUE]
          /\ err' = [err EXCEPT ![t] = "IOError"]
          /\ pc' = [pc EXCEPT ![t] = "done"]
    /\ UNCHANGED <<op, ds, data, path, binary_data, todo, result, ret,
                   lock, h5lib, ncalls>>
    /\ UNCHANGED plvars

(***************************************************************************)
(* _invalidate_cache                                                       *)
(***************************************************************************)
SaveInvalidate(t) ==
    /\ pc[t] = "save_invalidate"
    /\ trace' = [trace EXCEPT ![t] = Append(@, "invalidate")]
    /\ cacheStale' = [cacheStale EXCEPT ![ds[t]] = FALSE]
    /\ pc' = [pc EXCEPT ![t] = "done"]
    /\ UNCHANGED <<op, ds, locals, lock, h5lib, store, ncalls, lastSaved>>
    /\ UNCHANGED plvars

(* Variant of ExistsResolve without the try/except.                        *)
ExistsResolve_Raises(t) ==
    /\ pc[t] = "exists_resolve"
    /\ trace' = [trace EXCEPT ![t] = Append(@, "resolve")]
    /\ IF GetLoadPath(ds[t]) = 0
       THEN /\ err' = [err EXCEPT ![t] = "PathResolutionError"]
            /\ pc' = [pc EXCEPT ![t] = "done"]
            /\ path' = path
       ELSE /\ path' = [path EXCEPT ![t] = GetLoadPath(ds[t])]
            /\ pc' = [pc EXCEPT ![t] = "exists_check"]
            /\ err' = err
    /\ UNCHANGED <<op, ds, data, binary_data, todo, result, ret,
                   lock, h5lib, store, cacheStale, ncalls, lastSaved>>
    /\ UNCHANGED plvars

(***************************************************************************)
(* _exists: the DataSetError of path resolution is caught and answered     *)
(* with False; otherwise the filesystem is asked.                          *)
(***************************************************************************)
ExistsResolve(t) ==
    /\ pc[t] = "exists_resolve"
    /\ trace' = [trace EXCEPT ![t] = Append(@, "resolve")]
    /\ IF GetLoadPath(ds[t]) = 0
       THEN /\ ret' = [ret EXCEPT ![t] = "false"]
            /\ pc' = [pc EXCEPT ![t] = "done"]
            /\ path' = path
       ELSE /\ path' = [path EXCEPT ![t] = GetLoadPath(ds[t])]
            /\ pc' = [pc EXCEPT ![t] = "exists_check"]
            /\ ret' = ret
    /\ UNCHANGED <<op, ds, data, binary_data, todo, result, err,
                   lock, h5lib, store, cacheStale, ncalls, lastSaved>>
    /\ UNCHANGED plvars

ExistsCheck(t) ==
    /\ pc[t] = "exists_check"
    /\ trace' = [trace EXCEPT ![t] = Append(@, "exists")]
    /\ ret' = [ret EXCEPT ![t] = IF FileExists(ds[t], path[t]) THEN "true" ELSE "false"]
    /\ pc' = [pc EXCEPT ![t] = "done"]
    /\ UNCHANGED <<op, ds, data, path, binary_data, todo, result, err,
                   lock, h5lib, store, cacheStale, ncalls, lastSaved>>
    /\ UNCHANGED plvars

(***************************************************************************)
(* The call has returned or raised; the caller takes the outcome and the   *)
(* frame's local variables are gone.                                       *)
(***************************************************************************)
Return(t) ==
    /\ pc[t] = "done"
    /\ pc' = [pc EXCEPT ![t] = "idle"]
    /\ op' = [op EXCEPT ![t] = "none"]
    /\ ds' = [ds EXCEPT ![t] = "plain"]
    /\ data' = [data EXCEPT ![t] = NoHandle]
    /\ path' = [path EXCEPT ![t] = 0]
    /\ binary_data' = [binary_data EXCEPT ![t] = ZeroBytes]
    /\ todo' = [todo EXCEPT ![t] = <<>>]
    /\ result' = [result EXCEPT ![t] = NoHandle]
    /\ ret' = [ret EXCEPT ![t] = "none"]
    /\ err' = [err EXCEPT ![t] = "none"]
    /\ trace' = [trace EXCEPT ![t] = <<>>]
    /\ UNCHANGED <<lock, h5lib, store, cacheStale, ncalls, lastSaved>>
    /\ UNCHANGED plvars

(***************************************************************************)
(* Inputs.                                                                 *)
(***************************************************************************)
FileOf(body) == [sig |-> TRUE, count |-> Len(body), body |-> body]

HandleOf(v1, v2) == [n \in Names |-> IF n = 1 THEN v1 ELSE IF n = 2 THEN v2 ELSE Absent]

ConcInputs == {HandleOf("x", "y"), HandleOf("y", Absent), HandleOf("x", Dangling)}

ConcBuffers ==
    {FileOf(<< <<2, "y">>, <<1, "x">> >>),
     [sig |-> TRUE, count |-> 2, body |-> << <<2, "x">> >>]}

EmptyStore == [d \in DataSets |-> <<>>]

ConcStores ==
    {EmptyStore}
        \cup {[EmptyStore EXCEPT !["plain"] = <<b>>] : b \in ConcBuffers}
        \cup {[d \in DataSets |-> IF Versioned(d) THEN <<FileOf(<< <<1, "y">> >>)>>
                                   ELSE <<FileOf(<< <<2, "y">>, <<1, "x">> >>)>>]}

Bodies ==
    {s \in UNION {[1..k -> Names \X (Contents \cup {Dangling})] : k \in 0..MaxEntries} :
        Cardinality({s[i][1] : i \in 1..Len(s)}) = Len(s)}

InitBuffers ==
    {[sig |-> s, count |-> c, body |-> b] : s \in BOOLEAN, c \in 0..MaxEntries, b \in Bodies}

StoredHandles ==
    UNION {{Decode(store[d][i]) : i \in {j \in 1..Len(store[d]) : WellFormed(store[d][j])}} :
              d \in DataSets}

(***************************************************************************)
(* PlotlyDataSet.  plotly_args is a dict with the optional keys type, fig, *)
(* theme and layout; NoKey stands for a key that .get() does not find.     *)
(* PxAttributes are names of the plotly.express namespace: the chart       *)
(* constructors, a callable that returns no figure and a module.           *)
(***************************************************************************)
NoKey == "<missing>"
Unset == "<unset>"
ChartKinds == {"bar", "line", "scatter"}
PxCallables == ChartKinds \cup {"Constant"}
PxAttributes == PxCallables \cup {"data"}
ValidTemplates == {"plotly", "ggplot2", "simple_white"}
LayoutKeys == {"title", "template", "xaxis_title"}
LayoutValues(k) == IF k = "template" THEN {"ggplot2", "simple_white"}
                   ELSE IF k = "title" THEN {"T"} ELSE {"X"}

NoFig == [kind |-> NoKey, x |-> <<>>, y |-> <<>>, layout |-> [k \in LayoutKeys |-> Unset]]
NoFile == [data |-> <<>>, layout |-> {}]

(* px.<kind>(data, params of fig): one trace of that kind over the frame's  *)
(* columns, the express default template, the title when given.           *)
Construct(kind, d, fig_params) ==
    [kind |-> kind, x |-> d.x, y |-> d.y,
     layout |-> [k \in LayoutKeys |->
                    IF k \in DOMAIN fig_params THEN fig_params[k]
                    ELSE IF k = "template" THEN "plotly" ELSE Unset]]

(* fig.update_layout(upd): the given keys are set, the others kept.        *)
UpdateLayout(f, upd) ==
    [f EXCEPT !.layout = [k \in LayoutKeys |->
                            IF k \in DOMAIN upd THEN upd[k] ELSE f.layout[k]]]

Raised(e, steps) == [fig |-> NoFig, err |-> e, steps |-> steps]

(* Variant of PlotDataframe that applies the layout before the theme.      *)
PlotDataframe_LayoutFirst(d, args) ==
    LET plot_type == args.type
        fig_params == args.fig
        theme == IF args.theme = NoKey THEN "plotly" ELSE args.theme
    IN  IF plot_type = NoKey THEN Raised("TypeError", <<>>)
        ELSE IF plot_type \notin PxAttributes THEN Raised("AttributeError", <<>>)
        ELSE IF plot_type \notin PxCallables THEN Raised("TypeError", <<"getattr">>)
        ELSE IF plot_type \notin ChartKinds
             THEN Raised("AttributeError", <<"getattr", "call">>)
        ELSE IF theme \notin ValidTemplates
             THEN Raised("ValueError", <<"getattr", "call">>)
        ELSE [fig |-> UpdateLayout(
                          UpdateLayout(Construct(plot_type, d, fig_params), args.layout),
                          "template" :> theme),
              err |-> "none",
              steps |-> <<"getattr", "call", "layout", "theme">>]

(* Variant of PlotDataframe that falls back to a scatter plot when the     *)
(* type names no chart constructor.                                        *)
PlotDataframe_Fallback(d, args) ==
    LET plot_type == IF args.type \in ChartKinds THEN args.type ELSE "scatter"
        fig_params == args.fig
        theme == IF args.theme = NoKey THEN "plotly" ELSE args.theme
    IN  IF theme \notin ValidTemplates
        THEN Raised("ValueError", <<"getattr", "call">>)
        ELSE [fig |-> UpdateLayout(
                          UpdateLayout(Construct(plot_type, d, fig_params),
                                       "template" :> theme),
                          args.layout),
              err |-> "none",
              steps |-> <<"getattr", "call", "theme", "layout">>]

PlotDataframe(d, args) ==
    LET plot_type == args.type
        fig_params == args.fig
        theme == IF args.theme = NoKey THEN "plotly" ELSE args.theme
    IN  IF plot_type = NoKey THEN Raised("TypeError", <<>>)
        ELSE IF plot_type \notin PxAttributes THEN Raised("AttributeError", <<>>)
        ELSE IF plot_type \notin PxCallables THEN Raised("TypeError", <<"getattr">>)
        ELSE IF plot_type \notin ChartKinds
             THEN Raised("AttributeError", <<"getattr", "call">>)
        ELSE IF theme \notin ValidTemplates
             THEN Raised("ValueError", <<"getattr", "call">>)
        ELSE [fig |-> UpdateLayout(
                          UpdateLayout(Construct(plot_type, d, fig_params),
                                       "template" :> theme),
                          args.layout),
              err |-> "none",
              steps |-> <<"getattr", "call", "theme", "layout">>]

(* JSONDataSet._save: the figure written as JSON through the filesystem.   *)
ToJson(f) ==
    [data |-> <<f.kind, f.x, f.y>>,
     layout |-> {<<k, f.layout[k]>> : k \in {j \in LayoutKeys : f.layout[j] # Unset}}]

PlotlySave(d) ==
    LET r == PlotDataframe(d, plotly_args)
    IN  /\ frame' = d
        /\ fig' = r.fig
        /\ plErr' = r.err
        /\ IF r.err = "none"
           THEN /\ plSteps' = Append(r.steps, "json_save")
                /\ jsonFile' = ToJson(r.fig)
           ELSE /\ plSteps' = r.steps
                /\ jsonFile' = jsonFile
        /\ UNCHANGED <<plotly_args, h5vars>>

Frames == {[x |-> <<"a", "b">>, y |-> <<1, 2>>], [x |-> <<"c">>, y |-> <<3>>]}
NoFrame == [x |-> <<>>, y |-> <<>>]

Layouts ==
    {l \in UNION {[S -> UNION {LayoutValues(k) : k \in LayoutKeys}] : S \in SUBSET LayoutKeys} :
        \A k \in DOMAIN l : l[k] \in LayoutValues(k)}

FigParams == {l \in Layouts : DOMAIN l \subseteq {"title"}}
                 \cup {[k \in {"title"} |-> "P"]}

PlotlyArgs ==
    [type : PxAttributes \cup {"not_a_chart", NoKey},
     fig : FigParams,
     theme : ValidTemplates \cup {"bogus", NoKey},
     layout : Layouts]

PlotIdle ==
    /\ frame = NoFrame
    /\ fig = NoFig
    /\ plErr = "none"
    /\ plSteps = <<>>
    /\ jsonFile = NoFile

H5Idle ==
    /\ pc = [t \in Threads |-> "idle"]
    /\ op = [t \in Threads |-> "none"]
    /\ ds = [t \in Threads |-> "plain"]
    /\ data = [t \in Threads |-> NoHandle]
    /\ path = [t \in Threads |-> 0]
    /\ binary_data = [t \in Threads |-> ZeroBytes]
    /\ todo = [t \in Threads |-> <<>>]
    /\ result = [t \in Threads |-> NoHandle]
    /\ ret = [t \in Threads |-> "none"]
    /\ err = [t \in Threads |-> "none"]
    /\ trace = [t \in Threads |-> <<>>]
    /\ lock = NoThread
    /\ h5lib = ZeroBytes
    /\ cacheStale = [d \in DataSets |-> FALSE]
    /\ ncalls = 0
    /\ lastSaved = [d \in DataSets |-> NoHandle]

Init ==
    /\ H5Idle
    /\ store \in ConcStores
    /\ PlotIdle
    /\ plotly_args = [type |-> "bar", fig |-> <<>>, theme |-> NoKey, layout |-> <<>>]

LoadSaveStep(t) ==
    \/ LoadResolve(t) \/ LoadRead(t) \/ AcquireLock(t) \/ LoadFapl(t) \/ LoadOpen(t)
    \/ ReleaseLock(t) \/ SaveResolve(t) \/ SaveCreate(t) \/ SaveCopy(t) \/ SaveClose(t)
    \/ SaveWrite(t) \/ SaveInvalidate(t) \/ Return(t)

Step(t) == LoadSaveStep(t) \/ ExistsResolve(t) \/ ExistsCheck(t)

Next ==
    \E t \in Threads :
        \/ \E d \in DataSets : StartLoad(t, d)
        \/ \E d \in DataSets : \E h \in ConcInputs : StartSave(t, d, h)
        \/ \E d \in DataSets : StartExists(t, d)
        \/ Step(t)

Spec == Init /\ [][Next]_vars

(***************************************************************************)
(* One caller at a time, over every stored buffer; what is saved is a      *)
(* handle that decoding the stored files yields.                           *)
(***************************************************************************)
SeqInit ==
    /\ H5Idle
    /\ \E d \in DataSets : \E b \in InitBuffers : store = [EmptyStore EXCEPT ![d] = <<b>>]
    /\ PlotIdle
    /\ plotly_args = [type |-> "bar", fig |-> <<>>, theme |-> NoKey, layout |-> <<>>]

SeqNext ==
    \/ \E d \in DataSets : StartLoad(1, d)
    \/ \E d \in DataSets : \E h \in StoredHandles : StartSave(1, d, h)
    \/ \E d \in DataSets : StartExists(1, d)
    \/ Step(1)

SeqSpec == SeqInit /\ [][SeqNext]_vars

(***************************************************************************)
(* PlotlyDataSet.save over every plotly_args configuration.                *)
(***************************************************************************)
PlotInit ==
    /\ H5Idle
    /\ store = EmptyStore
    /\ PlotIdle
    /\ plotly_args \in PlotlyArgs

PlotNext == \E d \in Frames : PlotlySave(d)

PlotSpec == PlotInit /\ [][PlotNext]_vars

(***************************************************************************)
(* Concurrent load and save calls under weak fairness of every caller's    *)
(* steps: a thread that can take its next step (a library or filesystem    *)
(* call returning, the lock being free) eventually takes it.               *)
(***************************************************************************)
LiveInputs == {HandleOf("x", "y"), HandleOf("x", Dangling)}

LiveInit ==
    /\ H5Idle
    /\ store = [d \in DataSets |-> IF Versioned(d) THEN <<FileOf(<< <<1, "y">> >>)>>
                                   ELSE <<[sig |-> TRUE, count |-> 2, body |-> << <<2, "x">> >>]>>]
    /\ PlotIdle
    /\ plotly_args = [type |-> "bar", fig |-> <<>>, theme |-> NoKey, layout |-> <<>>]

LiveNext ==
    \E t \in Threads :
        \/ \E d \in DataSets : StartLoad(t, d)
        \/ \E d \in DataSets : \E h \in LiveInputs : StartSave(t, d, h)
        \/ LoadSaveStep(t)

LiveSpec == LiveInit /\ [][LiveNext]_vars /\ \A t \in Threads : WF_vars(LoadSaveStep(t))

(***************************************************************************)
(* Properties.                                                             *)
(***************************************************************************)
InLibrary(t) == pc[t] \in {"load_fapl", "load_open", "save_create", "save_copy"}

Copied(t) == SubSeq(Items(data[t]), 1, Len(Items(data[t])) - Len(todo[t]))

IsPrefix(s, q) == Len(s) <= Len(q) /\ s = SubSeq(q, 1, Len(s))

Took(t, step) == \E i \in 1..Len(trace[t]) : trace[t][i] = step

Copyable(h) == \A n \in Names : h[n] # Dangling

Encoded(t) ==
    op[t] = "save" /\ pc[t] \in {"save_unlock", "save_write", "save_invalidate", "done"}

(* C1: at most one thread is inside the library section (the in-memory     *)
(* open of a decode, or an encode from creating the container to           *)
(* extracting the bytes), and the container of a running encode holds      *)
(* exactly the entries that encode has copied so far, and a running        *)
(* decode opens the image it set: no other thread's library step falls     *)
(* between two steps of one section.                                       *)
C1_MutualExclusion ==
    /\ \A t, u \in Threads : InLibrary(t) /\ InLibrary(u) => t = u
    /\ \A t \in Threads :
          /\ pc[t] = "save_copy" =>
                /\ h5lib.sig
                /\ h5lib.count = Len(Copied(t))
                /\ h5lib.body = [i \in 1..Len(Copied(t)) |->
                                    <<Copied(t)[i], data[t][Copied(t)[i]]>>]
          /\ pc[t] = "load_open" => h5lib = binary_data[t]

C1_Witness ==
    \E t, u \in Threads :
        /\ t # u
        /\ pc[t] = "save_copy" /\ Len(todo[t]) = 1 /\ Len(h5lib.body) = 1
        /\ pc[u] \in {"load_lock", "save_lock"}

(* C2: a thread that is resolving a path, reading or writing the byte      *)
(* stream, invalidating the cache, asking exists, or that has returned,    *)
(* does not hold the lock; the holder is always between acquire and        *)
(* release around the library call.                                        *)
C2_LockNotOverIO ==
    /\ \A t \in Threads :
          pc[t] \in {"idle", "load_resolve", "load_read", "load_lock", "save_resolve",
                     "save_lock", "save_write", "save_invalidate", "exists_resolve",
                     "exists_check", "done"} => lock # t
    /\ lock # NoThread => InLibrary(lock) \/ pc[lock] \in {"load_unlock", "save_unlock"}

C2_Witness ==
    \E t, u \in Threads :
        /\ t # u
        /\ pc[t] = "save_write"
        /\ lock = u
        /\ pc[u] = "load_open"

(* C3: a load whose bytes are a well-formed container returns the decode   *)
(* of the bytes that this thread read, whatever the other threads do.      *)
C3_NoCrossContamination ==
    \A t \in Threads :
        (op[t] = "load" /\ pc[t] \in {"load_unlock", "done"} /\ WellFormed(binary_data[t]))
        => (err[t] = "none" /\ result[t] = Decode(binary_data[t]))

C3_Witness ==
    \E t, u \in Threads :
        /\ t # u
        /\ op[t] = "load" /\ pc[t] = "done" /\ err[t] = "none"
        /\ op[u] = "load" /\ pc[u] = "done" /\ err[u] = "none"
        /\ result[t] # result[u]
        /\ binary_data[t] # binary_data[u]

(* C4 as stated: every save of a decoded handle ends its encode with       *)
(* bytes that decode to a handle with the same top-level entries and       *)
(* contents.                                                               *)
C4_RoundTripEveryHandle ==
    \A t \in Threads :
        Encoded(t) =>
            /\ err[t] # "EncodeError"
            /\ WellFormed(binary_data[t])
            /\ Decode(binary_data[t]) = data[t]

(* C4, amended: for every decoded handle all of whose top-level entries    *)
(* can be copied, the encode succeeds and its bytes decode to a handle     *)
(* with the same top-level entries and contents (a handle with an entry    *)
(* that cannot be copied makes the encode fail instead); and a load that   *)
(* follows a successful save on the same dataset returns a handle equal    *)
(* to the saved one.                                                       *)
C4_RoundTrip ==
    \A t \in Threads :
        /\ Encoded(t) =>
              IF Copyable(data[t])
              THEN /\ err[t] # "EncodeError"
                   /\ WellFormed(binary_data[t])
                   /\ Decode(binary_data[t]) = data[t]
              ELSE err[t] = "EncodeError"
        /\ (op[t] = "load" /\ pc[t] = "done" /\ err[t] = "none"
               /\ lastSaved[ds[t]] # NoHandle)
           => result[t] = lastSaved[ds[t]]

C4_Witness ==
    \E t \in Threads :
        /\ op[t] = "load" /\ pc[t] = "done" /\ err[t] = "none"
        /\ result[t] = lastSaved[ds[t]]
        /\ Len(Items(result[t])) = 2
        /\ result[t][1] # result[t][2]

(* C5: when a versioned dataset has no saved version, exists() answers     *)
(* false without raising and load() raises the path-resolution error       *)
(* with no handle; no step of exists() raises or changes the stored        *)
(* files, and exists() answers false whenever the dataset has no file.     *)
C5_ExistsDowngrades ==
    [][\A t \in Threads :
          /\ (pc[t] = "exists_resolve" /\ pc'[t] # pc[t]
                 /\ Versioned(ds[t]) /\ store[ds[t]] = <<>>)
             => (pc'[t] = "done" /\ ret'[t] = "false" /\ err'[t] = "none")
          /\ (pc[t] = "load_resolve" /\ pc'[t] # pc[t]
                 /\ Versioned(ds[t]) /\ store[ds[t]] = <<>>)
             => (pc'[t] = "done" /\ err'[t] = "PathResolutionError"
                    /\ result'[t] = NoHandle)
          /\ (op[t] = "exists" /\ pc'[t] # pc[t])
             => (store' = store /\ err'[t] = "none")
          /\ (op[t] = "exists" /\ pc'[t] = "done" /\ store[ds[t]] = <<>>)
             => ret'[t] = "false"]_vars

C5_Witness ==
    \E t, u \in Threads :
        /\ op[t] = "exists" /\ pc[t] = "done" /\ ret[t] = "false" /\ err[t] = "none"
        /\ Versioned(ds[t]) /\ store[ds[t]] = <<>> /\ trace[t] = <<"resolve">>
        /\ op[u] = "load" /\ pc[u] = "done" /\ err[u] = "PathResolutionError"
        /\ ds[u] = ds[t]

(* C7: a load whose bytes are not a well-formed container ends with        *)
(* DecodeError and no handle; a load that raised returns no handle.        *)
C7_DecodeError ==
    \A t \in Threads :
        /\ (op[t] = "load" /\ pc[t] \in {"load_unlock", "done"}
               /\ Took(t, "decode") /\ ~WellFormed(binary_data[t]))
           => (err[t] = "DecodeError" /\ result[t] = NoHandle)
        /\ (op[t] = "load" /\ err[t] # "none") => result[t] = NoHandle

C7_Witness ==
    \E t \in Threads :
        /\ op[t] = "load" /\ pc[t] = "done" /\ err[t] = "DecodeError"
        /\ binary_data[t].sig
        /\ binary_data[t].count = 2
        /\ Len(binary_data[t].body) = 1

(* C6: a save whose plotly_args type names no chart constructor (or is     *)
(* missing) fails with the lookup/invocation error, produces no figure,    *)
(* runs neither the theme nor the layout step and never reaches the        *)
(* parent's save: nothing is persisted.                                    *)
C6_UnsupportedKind ==
    (frame # NoFrame /\ plotly_args.type \notin ChartKinds)
    => /\ plErr \in {"AttributeError", "TypeError"}
       /\ fig = NoFig
       /\ \A i \in 1..Len(plSteps) : plSteps[i] \notin {"theme", "layout", "json_save"}
       /\ jsonFile = NoFile

C6_Witness ==
    /\ frame # NoFrame
    /\ plotly_args.type = "not_a_chart"
    /\ plErr = "AttributeError"
    /\ plotly_args.layout # <<>>
    /\ jsonFile = NoFile

(* C8: in a built figure every key of the layout argument carries the      *)
(* layout argument's value; every other key keeps what the constructor     *)
(* and the theme left: the template is the theme ("plotly" when none is    *)
(* given), any other key is the constructor's.  The theme step runs        *)
(* before the layout step.                                                 *)
C8_LayoutPrecedence ==
    (frame # NoFrame /\ plErr = "none")
    => /\ \A k \in LayoutKeys :
             fig.layout[k] =
                IF k \in DOMAIN plotly_args.layout THEN plotly_args.layout[k]
                ELSE IF k = "template"
                     THEN (IF plotly_args.theme = NoKey THEN "plotly" ELSE plotly_args.theme)
                ELSE IF k \in DOMAIN plotly_args.fig THEN plotly_args.fig[k]
                ELSE Unset
       /\ plSteps = <<"getattr", "call", "theme", "layout", "json_save">>

C8_Witness ==
    /\ frame # NoFrame /\ plErr = "none"
    /\ plotly_args.theme = "plotly"
    /\ DOMAIN plotly_args.layout = {"title", "template"}
    /\ DOMAIN plotly_args.fig = {"title"}
    /\ fig.layout["title"] = "T"
    /\ fig.layout["template"] = "ggplot2"

(* C9: a thread whose call has ended, normally or with an error, does not  *)
(* hold the lock; and under weak fairness of every thread's steps every    *)
(* started call ends.                                                      *)
C9_LockReleasedAndTermination ==
    /\ [](\A t \in Threads : pc[t] \in {"idle", "done"} => lock # t)
    /\ \A t \in Threads : (pc[t] # "idle") ~> (pc[t] = "done")

C9_Witness ==
    \E t, u \in Threads :
        /\ t # u
        /\ pc[t] = "done" /\ err[t] \in {"DecodeError", "EncodeError"}
        /\ lock = u
        /\ ncalls = MaxCalls

SaveOrder == <<"resolve", "encode", "write", "invalidate">>

(* C10: the steps of a save run once each in the order resolve, encode,    *)
(* write, invalidate; a save that ended without error took all four, one   *)
(* whose encode failed stopped after the encode, one whose write failed    *)
(* stopped after the write; and the stored files change only in the write  *)
(* step of a save whose encode succeeded.                                  *)
C10_SaveOrder ==
    /\ [](\A t \in Threads :
             op[t] = "save" =>
                /\ IsPrefix(trace[t], SaveOrder)
                /\ (pc[t] = "done" /\ err[t] = "none") => trace[t] = SaveOrder
                /\ err[t] = "EncodeError" => trace[t] = SubSeq(SaveOrder, 1, 2)
                /\ err[t] = "IOError" => trace[t] = SubSeq(SaveOrder, 1, 3)
                /\ err[t] \in {"none", "EncodeError", "IOError"})
    /\ [][store' # store =>
             \E t \in Threads :
                /\ pc[t] = "save_write" /\ err[t] = "none"
                /\ trace[t] = SubSeq(SaveOrder, 1, 2)
                /\ trace'[t] = SubSeq(SaveOrder, 1, 3)]_vars

C10_Witness ==
    \E t, u \in Threads :
        /\ t # u
        /\ op[t] = "save" /\ pc[t] = "done" /\ err[t] = "EncodeError"
        /\ trace[t] = <<"resolve", "encode">>
        /\ op[u] = "save" /\ pc[u] = "done" /\ err[u] = "none"
        /\ trace[u] = SaveOrder
        /\ ~cacheStale[ds[u]]

=============================================================================
